---------------------------- MODULE Spec2Model ----------------------------
(***************************************************************************)
(* Model of src/src/v4l2-hdr-shim.c: the LD_PRELOAD override of ioctl that *)
(* patches the colorspace fields of VIDIOC_S_FMT on a v4l2loopback writer. *)
(*                                                                         *)
(* The process runs two threads, the smallest process in which first calls *)
(* race; each thread calls ioctl again and again.  A call is cut into      *)
(* steps at the accesses to the four static variables of the shim          *)
(* (shim_init_done, real_ioctl, shim_disabled, target_dev), which are      *)
(* plain, unsynchronised C objects: every step reads or writes at most one *)
(* of them, in source order, and the steps of different threads interleave *)
(* freely.  The payload a call points to is memory of its caller, one      *)
(* block per thread; mem records the stores of the shim, not those of the  *)
(* kernel driver behind the real ioctl.                                    *)
(***************************************************************************)
EXTENDS Integers, Sequences, FiniteSets, TLC

VARIABLES
    env,             \* the process environment: variable name -> value
    dlsymOk,         \* whether RTLD_NEXT holds a definition of "ioctl"
    proc,            \* "running", "aborted" (abort()) or "crashed" (SIGSEGV)
    shim_init_done,  \* static int shim_init_done
    real_ioctl,      \* static int (*real_ioctl)(...): "NULL" or "libc_ioctl"
    shim_disabled,   \* static int shim_disabled
    target_dev,      \* static const char *target_dev: a pointer
    pc,              \* each thread's position in ioctl / shim_init
    fd,              \* each call's descriptor argument
    request,         \* each call's request code
    arg,             \* each call's payload pointer: "NULL" or "fmt"
    mem,             \* each thread's payload memory (struct v4l2_format)
    entry,           \* the payload memory as it was at call entry
    consulted,       \* the call has entered should_patch_fd
    resolved,        \* the call has issued readlink on /proc/self/fd/<fd>
    deref,           \* the call has read the payload through its pointer
    fwd,             \* the invocations of the real ioctl made by the call
    realRet,         \* what the real ioctl returned to the shim
    ret,             \* what the shim returned to its caller
    initRuns,        \* how many times the body of shim_init was entered
    reset            \* the run of the reset utility (src/scripts/usbreset.c)

vars == <<env, dlsymOk, proc, shim_init_done, real_ioctl, shim_disabled,
          target_dev, pc, fd, request, arg, mem, entry, consulted, resolved,
          deref, fwd, realRet, ret, initRuns, reset>>

shimVars == <<shim_init_done, real_ioctl, shim_disabled, target_dev, initRuns>>
callVars == <<fd, request, arg, mem, entry>>
histVars == <<consulted, resolved, deref, fwd, realRet, ret>>
\* what surrounds the threads: the environment, the dynamic linker and the
\* separate process of the reset utility
worldVars == <<env, dlsymOk, reset>>

\* everything of the process that hosts the shim
hostVars == <<env, dlsymOk, proc, shimVars, pc, callVars, histVars>>

-----------------------------------------------------------------------------
(* Bounds *)

\* the threads of the host process
Threads == {1, 2}

\* by how many bytes the long descriptor path exceeds what link[] can hold
ExtraBytes == 1

\* the largest argument count the reset utility is started with
MaxArgc == 3

-----------------------------------------------------------------------------
(* Program constants *)

\* <asm-generic/ioctl.h>: a request code is the four bit fields dir, type,
\* nr and size packed into 32 bits; the model keeps the fields apart
IOWR(type, nr, size) == [dir |-> 3, type |-> type, nr |-> nr, size |-> size]

\* 'V', and sizeof(struct v4l2_format)
VideoIoctlType == 86
SizeofV4l2Format == 208

\* <linux/videodev2.h>: _IOWR('V', 5, struct v4l2_format), _IOWR('V', 4, ...)
VIDIOC_S_FMT == IOWR(VideoIoctlType, 5, SizeofV4l2Format)
VIDIOC_G_FMT == IOWR(VideoIoctlType, 4, SizeofV4l2Format)

V4L2_BUF_TYPE_VIDEO_CAPTURE == 1
V4L2_BUF_TYPE_VIDEO_OUTPUT == 2
V4L2_BUF_TYPE_VIDEO_OVERLAY == 3

V4L2_COLORSPACE_BT2020 == 9
V4L2_XFER_FUNC_SMPTE2084 == 6
V4L2_YCBCR_ENC_BT2020 == 10
V4L2_QUANTIZATION_LIM_RANGE == 2

\* V4L2_COLORSPACE_DEFAULT and friends: what FFmpeg's muxer writes
V4L2_COLORSPACE_DEFAULT == 0

\* char link[256]
LinkSize == 256

-----------------------------------------------------------------------------
(* Strings are sequences of characters; a pointer is the name of the object *)
(* it points to.                                                            *)

NULL == "NULL"

\* the string literal "" of line 65
EmptyLiteral == "literal_empty"

DISABLE == "V4L2_HDR_SHIM_DISABLE"
DEVICE == "V4L2_HDR_SHIM_DEVICE"

Video5 == <<"/", "d", "e", "v", "/", "v", "i", "d", "e", "o", "5">>

\* a path of exactly LinkSize - 1 bytes, and the same path ExtraBytes longer
LongPath == [i \in 1..(LinkSize - 1) |-> IF i = 1 THEN "/" ELSE "a"]
LongerPath == LongPath \o [i \in 1..ExtraBytes |-> "5"]

\* the descriptor table of the process: what /proc/self/fd/<fd> links to.
\* A descriptor outside the table is not open.
FdTable == (3 :> Video5) @@ (4 :> LongerPath)

\* the first descriptor after stdio and the open ones
ClosedFd == 3 + Cardinality(DOMAIN FdTable)

Fds == DOMAIN FdTable \cup {ClosedFd}

Min(a, b) == IF a < b THEN a ELSE b

\* getenv(name): a pointer into the environment, or NULL
getenv(e, name) == IF name \in DOMAIN e THEN name ELSE NULL

\* the string a non-null pointer points to
Deref(e, p) == IF p = EmptyLiteral THEN <<>> ELSE e[p]

\* readlink(path, buf, bufsiz): the results it can give, each the count of
\* bytes placed in buf and the bytes.  The link's contents are truncated to
\* bufsiz; a descriptor that does not resolve gives the error result -1 or
\* an empty result, and link[] keeps its zero fill
readlink(f, bufsiz) ==
    IF f \in DOMAIN FdTable
    THEN {[n |-> Min(Len(FdTable[f]), bufsiz),
           buf |-> SubSeq(FdTable[f], 1, Min(Len(FdTable[f]), bufsiz))]}
    ELSE {[n |-> -1, buf |-> <<>>], [n |-> 0, buf |-> <<>>]}

\* strcmp(a, b) == 0 on NUL-terminated strings without embedded NULs
strcmp0(a, b) == a = b


-----------------------------------------------------------------------------
(* The payload: struct v4l2_format, with fmt.pix flattened *)

NoFmt == [type |-> 0, width |-> 0, pixelformat |-> 0, colorspace |-> 0,
          xfer_func |-> 0, ycbcr_enc |-> 0, quantization |-> 0]

V4L2_PIX_FMT_NV12 == 842094158
V4L2_PIX_FMT_P010 == 808530000

PixelFormats == {V4L2_PIX_FMT_NV12, V4L2_PIX_FMT_P010}

\* the frame widths the writer asks for: full HD in NV12, UHD in P010
WidthOf(pf) == IF pf = V4L2_PIX_FMT_P010 THEN 3840 ELSE 1920

Requests == {VIDIOC_S_FMT, VIDIOC_G_FMT}

BufTypes == {V4L2_BUF_TYPE_VIDEO_CAPTURE, V4L2_BUF_TYPE_VIDEO_OUTPUT,
             V4L2_BUF_TYPE_VIDEO_OVERLAY}

\* what a caller hands in: FFmpeg's muxer leaves the four fields at DEFAULT
Payloads ==
    {p \in [type : BufTypes, width : {WidthOf(pf) : pf \in PixelFormats},
            pixelformat : PixelFormats,
            colorspace : {V4L2_COLORSPACE_DEFAULT},
            xfer_func : {V4L2_COLORSPACE_DEFAULT},
            ycbcr_enc : {V4L2_COLORSPACE_DEFAULT},
            quantization : {V4L2_COLORSPACE_DEFAULT}] :
        /\ p.width = WidthOf(p.pixelformat)
        \* the 10-bit format is asked for on the output side only
        /\ p.pixelformat = V4L2_PIX_FMT_P010 =>
              p.type = V4L2_BUF_TYPE_VIDEO_OUTPUT}

\* the four metadata fields of a payload
Meta(p) == <<p.colorspace, p.xfer_func, p.ycbcr_enc, p.quantization>>

HDR == <<V4L2_COLORSPACE_BT2020, V4L2_XFER_FUNC_SMPTE2084,
         V4L2_YCBCR_ENC_BT2020, V4L2_QUANTIZATION_LIM_RANGE>>

\* the results the real ioctl can give: success, or -1 with errno set
RealResults == {0, -1}

-----------------------------------------------------------------------------
(* The environments the process can be started in *)

DisableValues == {<<"1">>}
DeviceValues == {<<>>, Video5, LongPath}

Environments ==
    {e \in UNION {[D -> DisableValues \cup DeviceValues] :
                      D \in SUBSET {DISABLE, DEVICE}} :
        /\ DISABLE \in DOMAIN e => e[DISABLE] \in DisableValues
        /\ DEVICE \in DOMAIN e => e[DEVICE] \in DeviceValues}

-----------------------------------------------------------------------------
(* The decisions of the code, as operators *)

\* line 49: if (shim_init_done) return;
AlreadyInitialised(done) == done # 0

\* line 52: dlsym(RTLD_NEXT, "ioctl")
dlsym(ok) == IF ok THEN "libc_ioctl" ELSE NULL

\* lines 58-59 as they would be if any non-empty value disabled the shim
DisableRequestedByAnyValue(e) ==
    /\ getenv(e, DISABLE) # NULL
    /\ Len(Deref(e, getenv(e, DISABLE))) > 0

\* line 59: env_dis && env_dis[0] == '1'
DisableRequested(e) ==
    /\ getenv(e, DISABLE) # NULL
    /\ Len(Deref(e, getenv(e, DISABLE))) > 0
    /\ Deref(e, getenv(e, DISABLE))[1] = "1"

\* line 65: (env_dev && env_dev[0]) ? env_dev : ""
ChooseTarget(e) ==
    IF getenv(e, DEVICE) # NULL /\ Len(Deref(e, getenv(e, DEVICE))) > 0
    THEN getenv(e, DEVICE)
    ELSE EmptyLiteral

\* line 94 without its test of the request code
ShouldInspectAnyRequest(dis, req, a) == dis = 0 /\ a # NULL

\* line 94: !shim_disabled && request == VIDIOC_S_FMT && arg
ShouldInspect(dis, req, a) == dis = 0 /\ req = VIDIOC_S_FMT /\ a # NULL

\* line 104 with the test of the type turned into "not the capture side"
IsNotCaptureSide(type) == type # V4L2_BUF_TYPE_VIDEO_CAPTURE

\* line 104, left conjunct: fmt->type == V4L2_BUF_TYPE_VIDEO_OUTPUT
IsOutputSide(type) == type = V4L2_BUF_TYPE_VIDEO_OUTPUT

\* line 73 without its test for the empty string
NoTargetNullOnly(e, td) == td = NULL

\* line 73: !target_dev || target_dev[0] == '\0'
NoTarget(e, td) == td = NULL \/ Len(Deref(e, td)) = 0

\* lines 81-83 with a failed readlink taken for a match
MatchesLinkFailOpen(e, td, r) ==
    IF r.n <= 0 THEN TRUE ELSE strcmp0(SubSeq(r.buf, 1, r.n), Deref(e, td))

\* lines 81-83: the verdict of should_patch_fd on readlink's result r
MatchesLink(e, td, r) ==
    IF r.n <= 0 THEN FALSE ELSE strcmp0(SubSeq(r.buf, 1, r.n), Deref(e, td))

\* lines 106-109 with the store to xfer_func left out
PatchStoreKeepsXferFunc(p, at) ==
    CASE at = "patch_colorspace" ->
            [p EXCEPT !.colorspace = V4L2_COLORSPACE_BT2020]
      [] at = "patch_xfer_func" -> p
      [] at = "patch_ycbcr_enc" ->
            [p EXCEPT !.ycbcr_enc = V4L2_YCBCR_ENC_BT2020]
      [] at = "patch_quantization" ->
            [p EXCEPT !.quantization = V4L2_QUANTIZATION_LIM_RANGE]

\* lines 106-109 as they would be if only NV12 payloads were patched
PatchStoreNV12Only(p, at) ==
    IF p.pixelformat # V4L2_PIX_FMT_NV12 THEN p
    ELSE CASE at = "patch_colorspace" ->
                 [p EXCEPT !.colorspace = V4L2_COLORSPACE_BT2020]
           [] at = "patch_xfer_func" ->
                 [p EXCEPT !.xfer_func = V4L2_XFER_FUNC_SMPTE2084]
           [] at = "patch_ycbcr_enc" ->
                 [p EXCEPT !.ycbcr_enc = V4L2_YCBCR_ENC_BT2020]
           [] at = "patch_quantization" ->
                 [p EXCEPT !.quantization = V4L2_QUANTIZATION_LIM_RANGE]

\* lines 106-109: the four stores, one per step
PatchStore(p, at) ==
    CASE at = "patch_colorspace" ->
            [p EXCEPT !.colorspace = V4L2_COLORSPACE_BT2020]
      [] at = "patch_xfer_func" ->
            [p EXCEPT !.xfer_func = V4L2_XFER_FUNC_SMPTE2084]
      [] at = "patch_ycbcr_enc" ->
            [p EXCEPT !.ycbcr_enc = V4L2_YCBCR_ENC_BT2020]
      [] at = "patch_quantization" ->
            [p EXCEPT !.quantization = V4L2_QUANTIZATION_LIM_RANGE]

\* lines 106-109 with the store to quantization left out
AfterPatchSkipsQuantization(at) ==
    CASE at = "patch_colorspace" -> "patch_xfer_func"
      [] at = "patch_xfer_func" -> "patch_ycbcr_enc"
      [] at = "patch_ycbcr_enc" -> "forward"
      [] at = "patch_quantization" -> "forward"

\* the statement that follows each store
AfterPatch(at) ==
    CASE at = "patch_colorspace" -> "patch_xfer_func"
      [] at = "patch_xfer_func" -> "patch_ycbcr_enc"
      [] at = "patch_ycbcr_enc" -> "patch_quantization"
      [] at = "patch_quantization" -> "forward"

PatchSteps == {"patch_colorspace", "patch_xfer_func", "patch_ycbcr_enc",
               "patch_quantization"}

\* line 119: the arguments handed to the real ioctl
ForwardArgs(f, req, a) == <<f, req, a>>

\* line 119: return real_ioctl(...)
ReturnValue(r) == r

-----------------------------------------------------------------------------
\* lines 40-46: the host process before its first call to ioctl
Boot ==
    /\ proc = "running"
    /\ shim_init_done = 0
    /\ real_ioctl = NULL
    /\ shim_disabled = 0
    /\ target_dev = NULL
    /\ initRuns = 0
    /\ pc = [t \in Threads |-> "idle"]
    /\ fd = [t \in Threads |-> ClosedFd]
    /\ request = [t \in Threads |-> VIDIOC_G_FMT]
    /\ arg = [t \in Threads |-> NULL]
    /\ mem = [t \in Threads |-> NoFmt]
    /\ entry = [t \in Threads |-> NoFmt]
    /\ consulted = [t \in Threads |-> FALSE]
    /\ resolved = [t \in Threads |-> FALSE]
    /\ deref = [t \in Threads |-> FALSE]
    /\ fwd = [t \in Threads |-> <<>>]
    /\ realRet = [t \in Threads |-> <<>>]
    /\ ret = [t \in Threads |-> <<>>]

Goto(t, l) == pc' = [pc EXCEPT ![t] = l]

\* lines 86-92: a caller enters ioctl(fd, request, arg) and reaches shim_init
Call(t) ==
    /\ proc = "running"
    /\ pc[t] \in {"idle", "done"}
    /\ \E f \in Fds, r \in Requests, a \in {NULL, "fmt"}, p \in Payloads :
          \* the payload of another request is another structure: its bytes
          \* are taken to be the ones a set-format payload is patched for
          /\ r # VIDIOC_S_FMT =>
                /\ p.type = V4L2_BUF_TYPE_VIDEO_OUTPUT
                /\ p.pixelformat = V4L2_PIX_FMT_NV12
          /\ fd' = [fd EXCEPT ![t] = f]
          /\ request' = [request EXCEPT ![t] = r]
          /\ arg' = [arg EXCEPT ![t] = a]
          /\ mem' = [mem EXCEPT ![t] = IF a = NULL THEN NoFmt ELSE p]
          /\ entry' = [entry EXCEPT ![t] = IF a = NULL THEN NoFmt ELSE p]
    /\ consulted' = [consulted EXCEPT ![t] = FALSE]
    /\ resolved' = [resolved EXCEPT ![t] = FALSE]
    /\ deref' = [deref EXCEPT ![t] = FALSE]
    /\ fwd' = [fwd EXCEPT ![t] = <<>>]
    /\ realRet' = [realRet EXCEPT ![t] = <<>>]
    /\ ret' = [ret EXCEPT ![t] = <<>>]
    /\ Goto(t, "init_check")
    /\ UNCHANGED <<worldVars, proc, shimVars>>

\* line 49
InitCheck(t) ==
    /\ proc = "running"
    /\ pc[t] = "init_check"
    /\ Goto(t, IF AlreadyInitialised(shim_init_done) THEN "inspect" ELSE "init_set")
    /\ UNCHANGED <<worldVars, proc, shimVars, callVars, histVars>>

\* line 50
InitSet(t) ==
    /\ proc = "running"
    /\ pc[t] = "init_set"
    /\ shim_init_done' = 1
    /\ initRuns' = initRuns + 1
    /\ Goto(t, "init_dlsym")
    /\ UNCHANGED <<worldVars, proc, real_ioctl, shim_disabled, target_dev,
                   callVars, histVars>>

\* lines 52-56
InitDlsym(t) ==
    /\ proc = "running"
    /\ pc[t] = "init_dlsym"
    /\ real_ioctl' = dlsym(dlsymOk)
    /\ IF dlsym(dlsymOk) = NULL
       THEN proc' = "aborted" /\ UNCHANGED pc
       ELSE proc' = proc /\ Goto(t, "init_disable")
    /\ UNCHANGED <<worldVars, shim_init_done, shim_disabled, target_dev,
                   initRuns, callVars, histVars>>

\* lines 58-62
InitDisable(t) ==
    /\ proc = "running"
    /\ pc[t] = "init_disable"
    /\ IF DisableRequested(env)
       THEN shim_disabled' = 1 /\ Goto(t, "inspect")
       ELSE shim_disabled' = shim_disabled /\ Goto(t, "init_device")
    /\ UNCHANGED <<worldVars, proc, shim_init_done, real_ioctl, target_dev,
                   initRuns, callVars, histVars>>

\* lines 64-65
InitDevice(t) ==
    /\ proc = "running"
    /\ pc[t] = "init_device"
    /\ target_dev' = ChooseTarget(env)
    /\ Goto(t, "inspect")
    /\ UNCHANGED <<worldVars, proc, shim_init_done, real_ioctl, shim_disabled,
                   initRuns, callVars, histVars>>

\* line 94 and the left conjunct of line 104
Inspect(t) ==
    /\ proc = "running"
    /\ pc[t] = "inspect"
    /\ deref' = [deref EXCEPT ![t] =
                    ShouldInspect(shim_disabled, request[t], arg[t])]
    /\ Goto(t, IF /\ ShouldInspect(shim_disabled, request[t], arg[t])
                  /\ IsOutputSide(mem[t].type)
               THEN "match" ELSE "forward")
    /\ UNCHANGED <<worldVars, proc, shimVars, callVars, consulted, resolved,
                   fwd, realRet, ret>>

\* lines 72-76: should_patch_fd is entered and tests target_dev
Match(t) ==
    /\ proc = "running"
    /\ pc[t] = "match"
    /\ consulted' = [consulted EXCEPT ![t] = TRUE]
    /\ Goto(t, IF NoTarget(env, target_dev) THEN "patch_colorspace" ELSE "readlink")
    /\ UNCHANGED <<worldVars, proc, shimVars, callVars, resolved, deref, fwd,
                   realRet, ret>>

\* lines 77-83
Readlink(t) ==
    /\ proc = "running"
    /\ pc[t] = "readlink"
    /\ resolved' = [resolved EXCEPT ![t] = TRUE]
    /\ \E r \in readlink(fd[t], LinkSize - 1) :
          Goto(t, IF MatchesLink(env, target_dev, r)
                  THEN "patch_colorspace" ELSE "forward")
    /\ UNCHANGED <<worldVars, proc, shimVars, callVars, consulted, deref, fwd,
                   realRet, ret>>

\* lines 106-109
Patch(t) ==
    /\ proc = "running"
    /\ pc[t] \in PatchSteps
    /\ mem' = [mem EXCEPT ![t] = PatchStore(mem[t], pc[t])]
    /\ Goto(t, AfterPatch(pc[t]))
    /\ UNCHANGED <<worldVars, proc, shimVars, fd, request, arg, entry, histVars>>

\* line 119: return real_ioctl(fd, request, arg): the call through the
\* pointer, whose result is the result of ioctl.  Through a null pointer the
\* call is a jump to address 0 and the process dies of SIGSEGV.
Forward(t) ==
    /\ proc = "running"
    /\ pc[t] = "forward"
    /\ IF real_ioctl = NULL
       THEN /\ proc' = "crashed"
            /\ Goto(t, "segv")
            /\ UNCHANGED <<fwd, realRet, ret>>
       ELSE /\ proc' = proc
            /\ fwd' = [fwd EXCEPT ![t] =
                          Append(@, ForwardArgs(fd[t], request[t], arg[t]))]
            /\ \E r \in RealResults :
                  /\ realRet' = [realRet EXCEPT ![t] = <<r>>]
                  /\ ret' = [ret EXCEPT ![t] = <<ReturnValue(r)>>]
            /\ Goto(t, "done")
    /\ UNCHANGED <<worldVars, shimVars, callVars, consulted, resolved, deref>>

\* one step of thread t of the host process
Step(t) ==
    \/ Call(t)
    \/ InitCheck(t)
    \/ InitSet(t)
    \/ InitDlsym(t)
    \/ InitDisable(t)
    \/ InitDevice(t)
    \/ Inspect(t)
    \/ Match(t)
    \/ Readlink(t)
    \/ Patch(t)
    \/ Forward(t)

\* the reset utility has not been started
ResetIdle == [pc |-> "idle", argc |-> 0, node |-> "", fd |-> -1,
              errno |-> "none", opens |-> 0, requests |-> 0, reqRet |-> <<>>,
              closes |-> 0, exit |-> <<>>]

Init ==
    /\ env \in Environments
    /\ dlsymOk \in BOOLEAN
    /\ Boot
    /\ reset = ResetIdle

Next == \E t \in Threads : Step(t)

Spec == Init /\ [][Next]_vars

-----------------------------------------------------------------------------
(* The environment changing under the shim.  shim_disabled is an int, a    *)
(* copy; target_dev is the pointer getenv returned, into the environment   *)
(* string itself.  setenv and unsetenv change what a later getenv finds,   *)
(* and the shim calls getenv no more once shim_init has run; a store       *)
(* through the string (putenv'd storage, or p = getenv(..); p[0] = 0)      *)
(* changes the bytes target_dev points to.                                 *)

\* every run of shim_init's body is over
InitCompleted ==
    /\ initRuns >= 1
    /\ \A t \in Threads :
          pc[t] \notin {"init_check", "init_set", "init_dlsym", "init_disable",
                        "init_device"}

\* what a variable's string can be overwritten with
Overwrites == {<<>>, <<"0">>, <<"1">>, Video5}

\* the host process overwrites a variable's value in place: the new value
\* fits in the bytes of the old one
Overwrite ==
    /\ proc = "running"
    /\ InitCompleted
    /\ \E name \in DOMAIN env, v \in Overwrites :
          /\ Len(v) <= Len(env[name])
          /\ v # env[name]
          /\ env' = [env EXCEPT ![name] = v]
    /\ UNCHANGED <<dlsymOk, reset, proc, shimVars, pc, callVars, histVars>>

\* the values the disable switch is tried with, and the processes started
\* with them; the target is unset or /dev/video5
SwitchValues == {<<>>, <<"0">>, <<"1">>, <<"1", "0">>}

SwitchEnvironments ==
    {e \in UNION {[D -> SwitchValues \cup {Video5}] :
                      D \in SUBSET {DISABLE, DEVICE}} :
        /\ DISABLE \in DOMAIN e => e[DISABLE] \in SwitchValues
        /\ DEVICE \in DOMAIN e => e[DEVICE] = Video5}

InitSwitch ==
    /\ env \in SwitchEnvironments
    /\ dlsymOk = TRUE
    /\ Boot
    /\ reset = ResetIdle

SpecSwitch == InitSwitch /\ [][Next]_vars

\* one thread calls ioctl while the host process changes its environment
NextEnv == Step(1) \/ Overwrite

SpecEnv == Init /\ [][NextEnv]_vars

-----------------------------------------------------------------------------
(* src/scripts/usbreset.c: the reset utility, a process of its own *)

\* the device nodes it may be pointed at
Nodes == {"/dev/bus/usb/001/002", "/dev/bus/usb/001/003",
          "/dev/bus/usb/002/001", "/dev/bus/usb/002/002", "/dev/video5"}

\* the descriptors open() can return: the lowest free one, which is 0 when
\* the utility was started with stdin closed
ResetFds == {0, 3}

OpenErrors == {"ENOENT", "EACCES", "EBUSY"}
RequestErrors == {"ENODEV", "EPERM", "ENOTTY"}

\* line 12 with the test turned into "fewer than two"
TooFewArguments(argc) == argc < 2

\* line 12: argc != 2
WrongArgumentCount(argc) == argc # 2

\* lines 18 and 22: a result below zero is a failure
Failed(r) == r < 0

\* lines 14, 20, 25 and 29: the value main returns
ExitCode(ok) == IF ok THEN 0 ELSE 1

ResetGoto(l) == [reset EXCEPT !.pc = l]

\* the utility is started: main is entered with argc and argv
ResetStart ==
    /\ reset.pc = "idle"
    /\ \E c \in 0..MaxArgc, n \in Nodes :
          reset' = [reset EXCEPT !.pc = "main", !.argc = c,
                                 !.node = IF c >= 2 THEN n ELSE ""]
    /\ UNCHANGED hostVars

\* lines 12-16
ResetArguments ==
    /\ reset.pc = "main"
    /\ reset' = IF WrongArgumentCount(reset.argc)
                THEN [reset EXCEPT !.pc = "exited",
                                   !.exit = <<ExitCode(FALSE)>>]
                ELSE ResetGoto("open")
    /\ UNCHANGED hostVars

\* lines 17-21: open(filename, O_WRONLY) gives a descriptor, or -1 and errno
ResetOpen ==
    /\ reset.pc = "open"
    /\ \/ \E f \in ResetFds :
             reset' = [reset EXCEPT !.opens = @ + 1, !.fd = f,
                          !.pc = IF Failed(f) THEN "exited" ELSE "request",
                          !.exit = IF Failed(f) THEN <<ExitCode(FALSE)>> ELSE @]
       \/ \E e \in OpenErrors :
             reset' = [reset EXCEPT !.opens = @ + 1, !.fd = -1, !.errno = e,
                          !.pc = IF Failed(-1) THEN "exited" ELSE "request",
                          !.exit = IF Failed(-1) THEN <<ExitCode(FALSE)>> ELSE @]
    /\ UNCHANGED hostVars

\* lines 22-23: ioctl(fd, USBDEVFS_RESET, 0) gives 0, or -1 and errno
ResetRequest ==
    /\ reset.pc = "request"
    /\ \/ reset' = [reset EXCEPT !.requests = @ + 1, !.reqRet = <<0>>,
                       !.pc = IF Failed(0) THEN "close_failed" ELSE "close"]
       \/ \E e \in RequestErrors :
             reset' = [reset EXCEPT !.requests = @ + 1, !.reqRet = <<-1>>,
                          !.errno = e,
                          !.pc = IF Failed(-1) THEN "close_failed" ELSE "close"]
    /\ UNCHANGED hostVars

\* lines 24-25: close(fd); return 1
ResetCloseFailed ==
    /\ reset.pc = "close_failed"
    /\ reset' = [reset EXCEPT !.closes = @ + 1, !.pc = "exited",
                              !.exit = <<ExitCode(FALSE)>>]
    /\ UNCHANGED hostVars

\* lines 27-29: printf; close(fd); return 0
ResetClose ==
    /\ reset.pc = "close"
    /\ reset' = [reset EXCEPT !.closes = @ + 1, !.pc = "exited",
                              !.exit = <<ExitCode(TRUE)>>]
    /\ UNCHANGED hostVars

InitReset ==
    /\ env = [n \in {} |-> <<>>]
    /\ dlsymOk = TRUE
    /\ Boot
    /\ reset = ResetIdle

NextReset ==
    \/ ResetStart
    \/ ResetArguments
    \/ ResetOpen
    \/ ResetRequest
    \/ ResetCloseFailed
    \/ ResetClose

SpecReset == InitReset /\ [][NextReset]_vars


-----------------------------------------------------------------------------
(* Vocabulary of the claims, stated on the environment and on the calls,   *)
(* not on the shim's own variables                                         *)

\* the disable switch holds an affirmative value
Affirmative(e) ==
    /\ DISABLE \in DOMAIN e
    /\ e[DISABLE] # <<>>
    /\ Head(e[DISABLE]) = "1"

\* a non-empty target device path is set
TargetSet(e) == DEVICE \in DOMAIN e /\ e[DEVICE] # <<>>

\* the descriptor is open and its path is exactly path
ResolvesTo(f, path) == f \in DOMAIN FdTable /\ FdTable[f] = path

\* thread t is in a call and has returned from shim_init
PastInit(t) ==
    pc[t] \in {"inspect", "match", "readlink", "forward", "done", "segv"}
                 \cup PatchSteps

\* thread t has reached line 119 (and perhaps gone through it)
AtOrPastForward(t) == pc[t] \in {"forward", "done", "segv"}

\* the call of thread t is a set-format request with a video-output payload
OutputSetFormat(t) ==
    /\ request[t] = VIDIOC_S_FMT
    /\ arg[t] # NULL
    /\ entry[t].type = V4L2_BUF_TYPE_VIDEO_OUTPUT

\* lines 94-104 and 72-83: what the shim, in configuration (dis, td) over
\* environment e, decides for a set-format video-output request on f
WouldPatch(e, dis, td, f) ==
    /\ ShouldInspect(dis, VIDIOC_S_FMT, "fmt")
    /\ IsOutputSide(V4L2_BUF_TYPE_VIDEO_OUTPUT)
    /\ \/ NoTarget(e, td)
       \/ \E r \in readlink(f, LinkSize - 1) : MatchesLink(e, td, r)

\* the values initialization leaves in the configuration
FinalDisabled == IF Affirmative(env) THEN 1 ELSE 0
FinalTarget ==
    IF Affirmative(env) THEN NULL
    ELSE IF TargetSet(env) THEN DEVICE ELSE EmptyLiteral

-----------------------------------------------------------------------------
(* C1: the body of shim_init (lines 50-65) is entered at most once in the  *)
(* process, under every interleaving of concurrent first calls.            *)
C1_InitBodyAtMostOnce == initRuns <= 1

(* C2: whenever a thread has returned from shim_init, real_ioctl is        *)
(* resolved and shim_disabled and target_dev hold their final values.      *)
(* Stated here for the processes in which dlsym finds the real ioctl.      *)
C2_NoPartialConfiguration ==
    \A t \in Threads :
        (dlsymOk /\ PastInit(t)) =>
            /\ real_ioctl # NULL
            /\ shim_disabled = FinalDisabled
            /\ target_dev = FinalTarget

(* C3: with the disable switch affirmative in the environment, no call of  *)
(* any thread ever modifies a payload.                                     *)
C3_DisabledNeverModifies ==
    Affirmative(env) => \A t \in Threads : mem[t] = entry[t]

(* C4: for a set-format, video-output call with the shim enabled and a     *)
(* target path set, the four fields are patched if and only if the         *)
(* descriptor's path equals the target exactly, whatever its length.       *)
(* Stated here for the calls of a process in which one thread only has     *)
(* called ioctl so far.                                                    *)
C4_PatchedIffExactPath ==
    \A t \in Threads :
        (/\ \A u \in Threads \ {t} : pc[u] = "idle"
         /\ AtOrPastForward(t)
         /\ OutputSetFormat(t)
         /\ ~Affirmative(env)
         /\ TargetSet(env))
        => (Meta(mem[t]) = HDR <=> ResolvesTo(fd[t], env[DEVICE]))

(* C5: for a set-format, video-output call with the shim enabled and the   *)
(* target path unset or empty, the four fields are overwritten to          *)
(* (9, 6, 10, 2) by the time the call reaches the real ioctl, for every    *)
(* descriptor, and readlink is never issued.                               *)
C5_NoTargetAlwaysPatched ==
    \A t \in Threads :
        (/\ AtOrPastForward(t)
         /\ OutputSetFormat(t)
         /\ ~Affirmative(env)
         /\ ~TargetSet(env))
        => /\ Meta(mem[t]) = <<9, 6, 10, 2>>
           /\ ~resolved[t]

C5_Witness ==
    \E t \in Threads :
        /\ pc[t] = "done"
        /\ OutputSetFormat(t)
        /\ DEVICE \in DOMAIN env /\ env[DEVICE] = <<>>
        /\ DISABLE \notin DOMAIN env
        /\ fd[t] = ClosedFd
        /\ Meta(entry[t]) # HDR
        /\ Meta(mem[t]) = HDR

(* C6: a call whose request code is not VIDIOC_S_FMT leaves its payload as *)
(* it was at entry, and what it returns is what the real ioctl returned    *)
(* for the same descriptor, request code and payload pointer.              *)
C6_OtherRequestsUntouched ==
    \A t \in Threads :
        request[t] # VIDIOC_S_FMT =>
            /\ mem[t] = entry[t]
            /\ pc[t] = "done" =>
                  /\ fwd[t] = << <<fd[t], request[t], arg[t]>> >>
                  /\ ret[t] = realRet[t]

C6_Witness ==
    \E t \in Threads :
        /\ pc[t] = "done"
        /\ request[t] = VIDIOC_G_FMT
        /\ arg[t] # NULL
        /\ entry[t].type = V4L2_BUF_TYPE_VIDEO_OUTPUT
        /\ ~Affirmative(env) /\ ~TargetSet(env)
        /\ ret[t] = <<-1>>

(* C7: a set-format call whose payload type is not video-output leaves the *)
(* payload as it was at entry and never enters should_patch_fd.            *)
C7_NonOutputUntouched ==
    \A t \in Threads :
        (/\ request[t] = VIDIOC_S_FMT
         /\ arg[t] # NULL
         /\ entry[t].type # V4L2_BUF_TYPE_VIDEO_OUTPUT)
        => /\ mem[t] = entry[t]
           /\ ~consulted[t]

C7_Witness ==
    \E t \in Threads :
        /\ pc[t] = "done"
        /\ request[t] = VIDIOC_S_FMT
        /\ arg[t] # NULL
        /\ entry[t].type = V4L2_BUF_TYPE_VIDEO_OVERLAY
        /\ ~Affirmative(env) /\ ~TargetSet(env)
        /\ shim_disabled = 0

(* C8: every call that has returned from shim_init and gone through line   *)
(* 119 has invoked the real ioctl exactly once, with the descriptor, the   *)
(* request code and the payload pointer it was given, and has returned the *)
(* real ioctl's result.  Stated here for the processes in which dlsym      *)
(* finds the real ioctl.                                                   *)
C8_ForwardsExactlyOnce ==
    \A t \in Threads :
        (dlsymOk /\ pc[t] \in {"done", "segv"}) =>
            /\ fwd[t] = << <<fd[t], request[t], arg[t]>> >>
            /\ ret[t] # <<>>
            /\ ret[t] = realRet[t]

(* C9: when a call is at the real ioctl and when it has returned, the four *)
(* metadata fields are all as at entry or all (9, 6, 10, 2).               *)
C9_NoPartialPatch ==
    \A t \in Threads :
        AtOrPastForward(t) =>
            \/ Meta(mem[t]) = Meta(entry[t])
            \/ Meta(mem[t]) = <<9, 6, 10, 2>>

C9_Witness ==
    \E t, u \in Threads :
        /\ pc[t] = "forward"
        /\ Meta(mem[t]) = HDR
        /\ Meta(entry[t]) # HDR
        /\ pc[u] = "patch_ycbcr_enc"
        /\ Meta(mem[u]) # HDR
        /\ Meta(mem[u]) # Meta(entry[u])

(* C10: if dlsym fails the process terminates and no call is forwarded; no *)
(* call is ever at line 119 while real_ioctl is still null.                *)
C10_NeverForwardUnresolved ==
    /\ ~dlsymOk => \A t \in Threads : ~AtOrPastForward(t)
    /\ \A t \in Threads : AtOrPastForward(t) => real_ioctl # NULL

(* C11: when a target path is configured and the descriptor does not       *)
(* resolve (readlink gives an error or an empty result), the payload stays *)
(* as it was at entry, the call is forwarded to the real ioctl all the     *)
(* same and the caller gets the real ioctl's result.                       *)
C11_ResolutionFailureIsNoMatch ==
    \A t \in Threads :
        (resolved[t] /\ \A r \in readlink(fd[t], LinkSize - 1) : r.n <= 0) =>
            /\ mem[t] = entry[t]
            /\ pc[t] \in {"forward", "done"}
            /\ real_ioctl # NULL
            /\ pc[t] = "done" =>
                  /\ fwd[t] = << <<fd[t], request[t], arg[t]>> >>
                  /\ ret[t] = realRet[t]

C11_Witness ==
    \E t \in Threads :
        /\ pc[t] = "done"
        /\ resolved[t]
        /\ fd[t] = ClosedFd
        /\ OutputSetFormat(t)
        /\ TargetSet(env)
        /\ ret[t] = <<0>>

(* C12: shim_init_done goes from unset to set and is never reset, and once *)
(* it is set, real_ioctl, shim_disabled and target_dev never change again. *)
C12_FrozenOnceFlagSet ==
    [][shim_init_done = 1 =>
          /\ shim_init_done' = 1
          /\ real_ioctl' = real_ioctl
          /\ shim_disabled' = shim_disabled
          /\ target_dev' = target_dev]_vars

(* C13: the reset utility exits with 0 exactly when it got one device-node *)
(* argument, the open succeeded and the one reset request succeeded, and   *)
(* with 1 otherwise; it opens nothing on a wrong argument count, issues no *)
(* request after a failed open, and closes the descriptor before exit on   *)
(* every path after a successful open.                                     *)
C13_ResetExitCodes ==
    /\ reset.requests <= 1
    /\ reset.pc = "exited" =>
          /\ reset.exit \in {<<0>>, <<1>>}
          /\ reset.exit = <<0>> <=>
                (reset.argc = 2 /\ reset.fd >= 0 /\ reset.reqRet = <<0>>)
          /\ reset.argc # 2 => reset.opens = 0 /\ reset.requests = 0
          /\ reset.fd < 0 => reset.requests = 0 /\ reset.closes = 0
          /\ reset.fd >= 0 =>
                reset.opens = 1 /\ reset.requests = 1 /\ reset.closes = 1

C13_Witness ==
    /\ reset.pc = "exited"
    /\ reset.exit = <<1>>
    /\ reset.argc = 2
    /\ reset.fd = 0
    /\ reset.reqRet = <<-1>>
    /\ reset.closes = 1


(* C14: the four stores come before the call of the real ioctl: while a    *)
(* call is still storing, the real ioctl has not been invoked for it; once *)
(* it has been invoked the shim runs no further statement of that call;    *)
(* and a call whose payload the shim has written reaches the real ioctl    *)
(* with none of the four fields at the caller's value.                     *)
C14_PatchBeforeForward ==
    \A t \in Threads :
        /\ pc[t] \in PatchSteps \cup {"forward"} => fwd[t] = <<>>
        /\ fwd[t] # <<>> => pc[t] = "done" /\ Len(fwd[t]) = 1
        /\ (AtOrPastForward(t) /\ mem[t] # entry[t]) =>
              \A i \in 1..4 : /\ Meta(mem[t])[i] = HDR[i]
                              /\ Meta(mem[t])[i] # Meta(entry[t])[i]

C14_Witness ==
    \E t \in Threads :
        /\ pc[t] = "done"
        /\ fwd[t] = << <<fd[t], VIDIOC_S_FMT, "fmt">> >>
        /\ entry[t].type = V4L2_BUF_TYPE_VIDEO_OUTPUT
        /\ TargetSet(env)
        /\ ResolvesTo(fd[t], env[DEVICE])
        /\ Meta(entry[t]) = <<0, 0, 0, 0>>
        /\ Meta(mem[t]) = HDR

C16_NoInspectionWhenSkipped ==
    real_ioctl # NULL =>
        \A t \in Threads :
            (Affirmative(env) \/ request[t] # VIDIOC_S_FMT \/ arg[t] = NULL) =>
                ~deref[t] /\ ~consulted[t] /\ ~resolved[t]

(* C17: once initialization has completed, a change of the environment    *)
(* (here: a value overwritten in place) changes the decision of no later   *)
(* call: for every descriptor the shim decides after the change as it did  *)
(* before it.                                                              *)
C17_SnapshotAtFirstUse ==
    [][(InitCompleted /\ env' # env) =>
          \A f \in Fds :
              WouldPatch(env', shim_disabled', target_dev', f)
                 <=> WouldPatch(env, shim_disabled, target_dev, f)]_vars

(* C18: when shim_init has run, shim_disabled is set if and only if        *)
(* V4L2_HDR_SHIM_DISABLE is set and its value begins with '1'; with the    *)
(* variable unset, empty or beginning with another character the shim is   *)
(* enabled and a set-format video-output request on the target (or on any  *)
(* device when no target is set) is patched.                               *)
C18_DisabledIffLeadingOne ==
    InitCompleted =>
        /\ shim_disabled = 1 <=>
              (DISABLE \in DOMAIN env /\ env[DISABLE] # <<>>
                 /\ Head(env[DISABLE]) = "1")
        /\ shim_disabled \in {0, 1}
        /\ shim_disabled = 0 =>
              \A t \in Threads :
                  (/\ pc[t] = "done"
                   /\ OutputSetFormat(t)
                   /\ TargetSet(env) => ResolvesTo(fd[t], env[DEVICE])) =>
                      Meta(mem[t]) = HDR

C18_Witness ==
    /\ InitCompleted
    /\ DISABLE \in DOMAIN env
    /\ env[DISABLE] = <<"0">>
    /\ shim_disabled = 0
    /\ \E t \in Threads :
          /\ pc[t] = "done"
          /\ OutputSetFormat(t)
          /\ TargetSet(env)
          /\ ResolvesTo(fd[t], env[DEVICE])
          /\ Meta(mem[t]) = HDR
          /\ Meta(entry[t]) # HDR

(* C19: when dlsym succeeds, a call that has been entered and has not yet  *)
(* returned can always take its next step, whatever the other threads have *)
(* done: it is never blocked, and so runs on to its return.                *)
C19_EveryCallCanProceed ==
    dlsymOk =>
        \A t \in Threads :
            pc[t] \notin {"idle", "done"} => ENABLED Step(t)

=============================================================================
